---- MODULE Spec2Model ----
(***************************************************************************)
(* Model of the QUIC inbound connection multiplexer                        *)
(* leaf/src/proxy/quic/inbound/datagram.rs: struct Incoming and its        *)
(* Stream::poll_next.                                                      *)
(*                                                                         *)
(* The three quinn primitives polled by poll_next (Endpoint::accept, the   *)
(* Connecting future, Connection::accept_bi) are the environment: what a   *)
(* poll of each would answer is environment state, changed by environment  *)
(* actions.  One call of poll_next is one action.                          *)
(* Vec indices are 1-based here (Rust's index i is i + 1).                 *)
(***************************************************************************)
EXTENDS Integers, Sequences, FiniteSets, TLC

\* Number of inbound connection attempts the environment makes.
MaxAttempts == 3
\* Number of bidirectional streams the peers open, over all connections.
MaxStreams == 2
\* Number of PEM sections in a private-key file.
MaxBlocks == 3

Ids == 1..MaxAttempts

VARIABLES
    \* struct Incoming
    connectings,        \* Vec<quinn::Connecting>: pending handshakes
    conns,              \* Vec<quinn::Connection>: established connections
    incoming_closed,    \* bool
    \* quinn, as poll_next sees it
    incoming,           \* attempts the endpoint has ready, in arrival order
    endpoint_closed,    \* endpoint.accept() answers None once nothing is ready
    attempts,           \* number of attempts made so far
    handshake,          \* id -> what polling the Connecting answers
    accept_bi,          \* id -> what polling conn.accept_bi() answers
    next_index,         \* id -> index of the next stream the peer opens
    \* observation of the program
    step,               \* what the most recent call of poll_next returned
    established,        \* ids ever appended to self.conns
    discarded,          \* ids whose handshake failure was observed
    dropped,            \* ids removed from self.conns
    emitted,            \* streams ever returned in Poll::Ready(Some(..))
    \* Handler::new
    certificate,        \* the certificate file: whether it exists, its
                        \* extension, whether its PEM content decodes
    certificate_key,    \* the private-key file: whether it exists, its
                        \* extension and content
    key                 \* what lines 136-175 gave: the key, or the error
                        \* that ended the construction before or at the key

vars == <<connectings, conns, incoming_closed, incoming, endpoint_closed,
          attempts, handshake, accept_bi, next_index, step, established,
          discarded, dropped, emitted, certificate, certificate_key,
          key>>

mux == <<connectings, conns, incoming_closed>>
env == <<incoming, endpoint_closed, attempts, handshake, accept_bi, next_index>>
hist == <<step, established, discarded, dropped, emitted>>
handler == <<certificate, certificate_key, key>>

----------------------------------------------------------------------------
\* Helpers on sequences

Range(s) == {s[i] : i \in 1..Len(s)}

NoDup(s) == \A i, j \in 1..Len(s) : i # j => s[i] # s[j]

RECURSIVE Reverse(_)
Reverse(s) == IF s = <<>> THEN <<>> ELSE Append(Reverse(Tail(s)), Head(s))

\* Vec::pop used where the code uses Vec::swap_remove: the last element goes
swap_remove_pops(v, idx) == SubSeq(v, 1, Len(v) - 1)

\* Vec::swap_remove(idx): the last element takes the place of the removed one.
swap_remove(v, idx) ==
    IF idx = Len(v) THEN SubSeq(v, 1, Len(v) - 1)
    ELSE [i \in 1..(Len(v) - 1) |-> IF i = idx THEN v[Len(v)] ELSE v[i]]

\* Vec::swap_remove used where the code uses Vec::remove
remove_by_swap(v, idx) ==
    IF idx = Len(v) THEN SubSeq(v, 1, Len(v) - 1)
    ELSE [i \in 1..(Len(v) - 1) |-> IF i = idx THEN v[Len(v)] ELSE v[i]]

\* Vec::remove(idx): the elements after idx shift left.
remove(v, idx) == SubSeq(v, 1, idx - 1) \o SubSeq(v, idx + 1, Len(v))

----------------------------------------------------------------------------
\* Session and the item of the stream

\* conn.remote_address()
remote_address(id) == 100 + (id % 2)

NoItem == [kind |-> "None"]

\* The session left at ..Default::default(): no source, no stream_id
Transport_default_session(id, index) ==
    [kind |-> "Stream", conn |-> id, send |-> index,
     source |-> 0, stream_id |-> 0]

\* AnyBaseInboundTransport::Stream(QuicProxyStream { recv, send }, sess)
Transport(id, index) ==
    [kind |-> "Stream", conn |-> id, send |-> index,
     source |-> remote_address(id), stream_id |-> index]

----------------------------------------------------------------------------
\* Stage 1: drain the endpoint (lines 41-60)

\* One poll of self.endpoint.accept()
EndpointAccept(q, closed) ==
    IF q # <<>> THEN "Some" ELSE IF closed THEN "None" ELSE "Pending"

\* The loop with the attempts gathered so far dropped when None is answered
RECURSIVE accept_loop_drops_on_close(_, _, _, _)
accept_loop_drops_on_close(q, closed, got, asked) ==
    LET r == EndpointAccept(q, closed) IN
    IF r = "Some"
      THEN accept_loop_drops_on_close(Tail(q), closed, Append(got, Head(q)),
                                      asked + 1)
      ELSE [connectings |-> IF r = "None" THEN <<>> ELSE got,
            incoming_closed |-> (r = "None"),
            asked |-> asked + 1, rest |-> q]

RECURSIVE accept_loop(_, _, _, _)
accept_loop(q, closed, got, asked) ==
    LET r == EndpointAccept(q, closed) IN
    IF r = "Some"
      THEN accept_loop(Tail(q), closed, Append(got, Head(q)), asked + 1)
      ELSE [connectings |-> got, incoming_closed |-> (r = "None"),
            asked |-> asked + 1, rest |-> q]

\* Line 58 moved behind the if: a call that skips the loop clears the flag
Drain_clears_flag(self_connectings, self_closed, q, closed) ==
    IF ~self_closed
      THEN LET l == accept_loop(q, closed, <<>>, 0) IN
           [connectings |-> self_connectings \o l.connectings,
            incoming_closed |-> l.incoming_closed,
            obtained |-> l.connectings, asked |-> l.asked, rest |-> l.rest]
      ELSE [connectings |-> self_connectings, incoming_closed |-> FALSE,
            obtained |-> <<>>, asked |-> 0, rest |-> q]

Drain(self_connectings, self_closed, q, closed) ==
    IF ~self_closed
      THEN LET l == accept_loop(q, closed, <<>>, 0) IN
           [connectings |-> self_connectings \o l.connectings,
            incoming_closed |-> l.incoming_closed,
            obtained |-> l.connectings, asked |-> l.asked, rest |-> l.rest]
      ELSE [connectings |-> self_connectings, incoming_closed |-> self_closed,
            obtained |-> <<>>, asked |-> 0, rest |-> q]

----------------------------------------------------------------------------
\* Stage 2: advance the pending handshakes (lines 62-84)

\* The pass without completed.push(idx) of line 72: a failed handshake stays
RECURSIVE poll_connectings_keeps_failed(_, _, _, _)
poll_connectings_keeps_failed(v, hs, idx, acc) ==
    IF idx > Len(v) THEN acc
    ELSE LET r == hs[v[idx]]
             seen == [acc EXCEPT !.polled = Append(@, v[idx])] IN
         CASE r = "Ok" ->
                poll_connectings_keeps_failed(v, hs, idx + 1,
                    [seen EXCEPT !.conns = Append(@, v[idx]),
                                 !.completed = Append(@, idx)])
           [] r = "Err" ->
                poll_connectings_keeps_failed(v, hs, idx + 1,
                    [seen EXCEPT !.failed = Append(@, v[idx])])
           [] OTHER -> poll_connectings_keeps_failed(v, hs, idx + 1, seen)

\* The pass without completed.push(idx) of line 68: an established
\* connection stays in self.connectings as well
RECURSIVE poll_connectings_keeps_succeeded(_, _, _, _)
poll_connectings_keeps_succeeded(v, hs, idx, acc) ==
    IF idx > Len(v) THEN acc
    ELSE LET r == hs[v[idx]]
             seen == [acc EXCEPT !.polled = Append(@, v[idx])] IN
         CASE r = "Ok" ->
                poll_connectings_keeps_succeeded(v, hs, idx + 1,
                    [seen EXCEPT !.conns = Append(@, v[idx])])
           [] r = "Err" ->
                poll_connectings_keeps_succeeded(v, hs, idx + 1,
                    [seen EXCEPT !.failed = Append(@, v[idx]),
                                 !.completed = Append(@, idx)])
           [] OTHER -> poll_connectings_keeps_succeeded(v, hs, idx + 1, seen)

\* The pass with conns.push(conn) in the Err arm as well as in the Ok arm
RECURSIVE poll_connectings_keeps_all(_, _, _, _)
poll_connectings_keeps_all(v, hs, idx, acc) ==
    IF idx > Len(v) THEN acc
    ELSE LET r == hs[v[idx]]
             seen == [acc EXCEPT !.polled = Append(@, v[idx])] IN
         CASE r = "Ok" ->
                poll_connectings_keeps_all(v, hs, idx + 1,
                    [seen EXCEPT !.conns = Append(@, v[idx]),
                                 !.completed = Append(@, idx)])
           [] r = "Err" ->
                poll_connectings_keeps_all(v, hs, idx + 1,
                    [seen EXCEPT !.conns = Append(@, v[idx]),
                                 !.failed = Append(@, v[idx]),
                                 !.completed = Append(@, idx)])
           [] OTHER -> poll_connectings_keeps_all(v, hs, idx + 1, seen)

\* for (idx, connecting) in self.connectings.iter_mut().enumerate()
RECURSIVE poll_connectings_drops_pending(_, _, _, _)
poll_connectings_drops_pending(v, hs, idx, acc) ==
    IF idx > Len(v) THEN acc
    ELSE LET r == hs[v[idx]]
             seen == [acc EXCEPT !.polled = Append(@, v[idx])] IN
         CASE r = "Ok" ->
                poll_connectings_drops_pending(v, hs, idx + 1,
                    [seen EXCEPT !.conns = Append(@, v[idx]),
                                 !.completed = Append(@, idx)])
           [] r = "Err" ->
                poll_connectings_drops_pending(v, hs, idx + 1,
                    [seen EXCEPT !.failed = Append(@, v[idx]),
                                 !.completed = Append(@, idx)])
           [] OTHER ->
                poll_connectings_drops_pending(v, hs, idx + 1,
                    [seen EXCEPT !.completed = Append(@, idx)])

RECURSIVE poll_connectings(_, _, _, _)
poll_connectings(v, hs, idx, acc) ==
    IF idx > Len(v) THEN acc
    ELSE LET r == hs[v[idx]]
             seen == [acc EXCEPT !.polled = Append(@, v[idx])] IN
         CASE r = "Ok" ->
                poll_connectings(v, hs, idx + 1,
                    [seen EXCEPT !.conns = Append(@, v[idx]),
                                 !.completed = Append(@, idx)])
           [] r = "Err" ->
                poll_connectings(v, hs, idx + 1,
                    [seen EXCEPT !.failed = Append(@, v[idx]),
                                 !.completed = Append(@, idx)])
           [] OTHER -> poll_connectings(v, hs, idx + 1, seen)

\* for idx in completed.iter().rev() { self.connectings.swap_remove(*idx); }
RECURSIVE swap_remove_each(_, _)
swap_remove_each(v, idxs) ==
    IF idxs = <<>> THEN v
    ELSE swap_remove_each(swap_remove(v, Head(idxs)), Tail(idxs))

\* The removal without .rev(): the indices are used in ascending order
Advance_removes_ascending(self_connectings, self_conns, hs) ==
    LET p == poll_connectings(self_connectings, hs, 1,
                 [conns |-> <<>>, completed |-> <<>>, failed |-> <<>>,
                  polled |-> <<>>]) IN
    [connectings |-> swap_remove_each(self_connectings, p.completed),
     conns |-> self_conns \o p.conns,
     polled |-> p.polled, succeeded |-> p.conns, failed |-> p.failed]

Advance_prepends(self_connectings, self_conns, hs) ==
    LET p == poll_connectings(self_connectings, hs, 1,
                 [conns |-> <<>>, completed |-> <<>>, failed |-> <<>>,
                  polled |-> <<>>]) IN
    [connectings |-> swap_remove_each(self_connectings, Reverse(p.completed)),
     conns |-> p.conns \o self_conns,
     polled |-> p.polled, succeeded |-> p.conns, failed |-> p.failed]

Advance(self_connectings, self_conns, hs) ==
    LET p == poll_connectings(self_connectings, hs, 1,
                 [conns |-> <<>>, completed |-> <<>>, failed |-> <<>>,
                  polled |-> <<>>]) IN
    [connectings |-> swap_remove_each(self_connectings, Reverse(p.completed)),
     conns |-> self_conns \o p.conns,
     polled |-> p.polled, succeeded |-> p.conns, failed |-> p.failed]

----------------------------------------------------------------------------
\* Stage 3: one stream accept per established connection (lines 86-111)

\* The scan without the break of line 100: a later stream replaces the first
RECURSIVE scan_conns_no_break(_, _, _, _, _)
scan_conns_no_break(v, ab, ni, idx, acc) ==
    IF idx > Len(v) THEN acc
    ELSE LET r == ab[v[idx]]
             seen == [acc EXCEPT !.scanned = Append(@, v[idx])] IN
         CASE r = "Ok" ->
                scan_conns_no_break(v, ab, ni, idx + 1,
                    [seen EXCEPT !.stream = Transport(v[idx], ni[v[idx]]),
                                 !.taken = Append(@, <<v[idx], ni[v[idx]]>>)])
           [] r = "Err" ->
                scan_conns_no_break(v, ab, ni, idx + 1,
                    [seen EXCEPT !.failed = Append(@, v[idx]),
                                 !.completed = Append(@, idx)])
           [] OTHER -> scan_conns_no_break(v, ab, ni, idx + 1, seen)

\* The scan without completed.push(idx) of line 104: a failed connection stays
RECURSIVE scan_conns_keeps_failed(_, _, _, _, _)
scan_conns_keeps_failed(v, ab, ni, idx, acc) ==
    IF idx > Len(v) THEN acc
    ELSE LET r == ab[v[idx]]
             seen == [acc EXCEPT !.scanned = Append(@, v[idx])] IN
         CASE r = "Ok" ->
                [seen EXCEPT !.stream = Transport(v[idx], ni[v[idx]]),
                             !.taken = Append(@, <<v[idx], ni[v[idx]]>>)]
           [] r = "Err" ->
                scan_conns_keeps_failed(v, ab, ni, idx + 1,
                    [seen EXCEPT !.failed = Append(@, v[idx])])
           [] OTHER -> scan_conns_keeps_failed(v, ab, ni, idx + 1, seen)

\* The scan with a break in the Err arm: it stops at the first failure
RECURSIVE scan_conns_stops_at_failure(_, _, _, _, _)
scan_conns_stops_at_failure(v, ab, ni, idx, acc) ==
    IF idx > Len(v) THEN acc
    ELSE LET r == ab[v[idx]]
             seen == [acc EXCEPT !.scanned = Append(@, v[idx])] IN
         CASE r = "Ok" ->
                [seen EXCEPT !.stream = Transport(v[idx], ni[v[idx]]),
                             !.taken = Append(@, <<v[idx], ni[v[idx]]>>)]
           [] r = "Err" ->
                [seen EXCEPT !.failed = Append(@, v[idx]),
                             !.completed = Append(@, idx)]
           [] OTHER -> scan_conns_stops_at_failure(v, ab, ni, idx + 1, seen)

\* for (idx, conn) in self.conns.iter_mut().enumerate()
RECURSIVE scan_conns(_, _, _, _, _)
scan_conns(v, ab, ni, idx, acc) ==
    IF idx > Len(v) THEN acc
    ELSE LET r == ab[v[idx]]
             seen == [acc EXCEPT !.scanned = Append(@, v[idx])] IN
         CASE r = "Ok" ->
                \* stream.replace(..); break
                [seen EXCEPT !.stream = Transport(v[idx], ni[v[idx]]),
                             !.taken = Append(@, <<v[idx], ni[v[idx]]>>)]
           [] r = "Err" ->
                scan_conns(v, ab, ni, idx + 1,
                    [seen EXCEPT !.failed = Append(@, v[idx]),
                                 !.completed = Append(@, idx)])
           [] OTHER -> scan_conns(v, ab, ni, idx + 1, seen)

\* for idx in completed.iter().rev() { self.conns.remove(*idx); }
RECURSIVE remove_each(_, _)
remove_each(v, idxs) ==
    IF idxs = <<>> THEN v
    ELSE remove_each(remove(v, Head(idxs)), Tail(idxs))

\* The removal without .rev(): the indices are used in ascending order
Scan_removes_ascending(self_conns, ab, ni) ==
    LET s == scan_conns(self_conns, ab, ni, 1,
                 [stream |-> NoItem, completed |-> <<>>, failed |-> <<>>,
                  scanned |-> <<>>, taken |-> <<>>]) IN
    [conns |-> remove_each(self_conns, s.completed),
     stream |-> s.stream, scanned |-> s.scanned, taken |-> s.taken,
     failed |-> s.failed]

Scan(self_conns, ab, ni) ==
    LET s == scan_conns(self_conns, ab, ni, 1,
                 [stream |-> NoItem, completed |-> <<>>, failed |-> <<>>,
                  scanned |-> <<>>, taken |-> <<>>]) IN
    [conns |-> remove_each(self_conns, Reverse(s.completed)),
     stream |-> s.stream, scanned |-> s.scanned, taken |-> s.taken,
     failed |-> s.failed]

----------------------------------------------------------------------------
\* Stage 4: what the call returns (lines 113-119)

\* The check of line 115 without self.conns.is_empty()
Completion_ignores_conns(stream, closed, cgs, cns) ==
    IF stream # NoItem THEN "Some"
    ELSE IF closed /\ cgs = <<>> THEN "None"
    ELSE "Pending"

Completion_ignores_closed(stream, closed, cgs, cns) ==
    IF stream # NoItem THEN "Some"
    ELSE IF cgs = <<>> /\ cns = <<>> THEN "None"
    ELSE "Pending"

Completion(stream, closed, cgs, cns) ==
    IF stream # NoItem THEN "Some"
    ELSE IF closed /\ cgs = <<>> /\ cns = <<>> THEN "None"
    ELSE "Pending"

\* What a call leaves behind and returns, with what it did on the way:
\* d, a and s are the outcomes of the three passes
Outcome(d, a, s) ==
    [connectings |-> a.connectings,
     conns |-> s.conns,
     incoming_closed |-> d.incoming_closed,
     rest |-> d.rest,
     ret |-> Completion(s.stream, d.incoming_closed, a.connectings, s.conns),
     item |-> s.stream,
     asked |-> d.asked, obtained |-> d.obtained,
     polled |-> a.polled, succeeded |-> a.succeeded, failed |-> a.failed,
     joined |-> a.conns,
     scanned |-> s.scanned, taken |-> s.taken, refused |-> s.failed]

\* One whole call of Incoming::poll_next
poll_next(self_connectings, self_conns, self_closed, q, closed, hs, ab, ni) ==
    LET d == Drain(self_connectings, self_closed, q, closed)
        a == Advance(d.connectings, self_conns, hs)
        s == Scan(a.conns, ab, ni) IN
    Outcome(d, a, s)

----------------------------------------------------------------------------
\* Handler::new: the private key (lines 149-175)

\* The kinds of section a PEM file holds; rustls_pemfile tells them apart by
\* their BEGIN line.  A file is its extension, the kinds of its sections in
\* order, and whether some section cannot be decoded; a path may also name
\* no file at all.
Sections == {"PKCS8", "RSA", "EC", "CERT"}

SectionLists == UNION {[1..n -> Sections] : n \in 0..MaxBlocks}

KeyFiles ==
    [exists : BOOLEAN, ext : {"der", "pem", "none"}, malformed : BOOLEAN,
     sections : SectionLists]

\* The certificate file: only whether it can be read and parsed matters
CertFiles == [exists : BOOLEAN, ext : {"der", "pem"}, malformed : BOOLEAN]

\* rustls_pemfile::pkcs8_private_keys / rsa_private_keys / ec_private_keys:
\* the sections of one kind, in file order, each named by its place
RECURSIVE private_keys(_, _, _)
private_keys(sections, kind, i) ==
    IF i > Len(sections) THEN <<>>
    ELSE IF sections[i] = kind
           THEN <<[kind |-> kind, at |-> i]>> \o private_keys(sections, kind, i + 1)
           ELSE private_keys(sections, kind, i + 1)

Loaded(x) == [ok |-> TRUE, key |-> x, err |-> "none"]
Failed(e) == [ok |-> FALSE, key |-> [kind |-> "none", at |-> 0], err |-> e]
NotLoaded == [ok |-> FALSE, key |-> [kind |-> "none", at |-> 0], err |-> "not called"]

\* The key expression with the RSA pass tried before the PKCS8 pass
private_key_rsa_first(file) ==
    IF file.ext = "der" THEN Loaded([kind |-> "der", at |-> 0])
    ELSE IF file.malformed THEN Failed("io")
    ELSE LET rsa == private_keys(file.sections, "RSA", 1)
             pkcs8 == private_keys(file.sections, "PKCS8", 1)
             ec == private_keys(file.sections, "EC", 1) IN
         IF rsa # <<>> THEN Loaded(Head(rsa))
         ELSE IF pkcs8 # <<>> THEN Loaded(Head(pkcs8))
         ELSE IF ec # <<>> THEN Loaded(Head(ec))
         ELSE Failed("no private keys found")

\* let key = match Path::new(&certificate_key).extension() ...
private_key(file) ==
    IF file.ext = "der" THEN Loaded([kind |-> "der", at |-> 0])
    ELSE IF file.malformed THEN Failed("io")
    ELSE LET pkcs8 == private_keys(file.sections, "PKCS8", 1)
             rsa == private_keys(file.sections, "RSA", 1)
             ec == private_keys(file.sections, "EC", 1) IN
         IF pkcs8 # <<>> THEN Loaded(Head(pkcs8))
         ELSE IF rsa # <<>> THEN Loaded(Head(rsa))
         ELSE IF ec # <<>> THEN Loaded(Head(ec))
         ELSE Failed("no private keys found")

\* fs::read(&certificate).and_then(|x| Ok((x, fs::read(&certificate_key)?)))?
read_files(cert, file) ==
    IF ~cert.exists THEN "NotFound"
    ELSE IF ~file.exists THEN "NotFound"
    ELSE "Ok"

\* let cert = match Path::new(&certificate).extension() ...: a der file is
\* taken as it is, any other goes through rustls_pemfile::certs(..)?
parse_certificate(cert) ==
    IF cert.ext = "der" THEN "Ok"
    ELSE IF cert.malformed THEN "io"
    ELSE "Ok"

\* Handler::new up to the key: either `?` in front of the key expression
\* returns before the key file is looked at
Handler_new(cert, file) ==
    IF read_files(cert, file) # "Ok" THEN Failed(read_files(cert, file))
    ELSE IF parse_certificate(cert) # "Ok" THEN Failed(parse_certificate(cert))
    ELSE private_key(file)

----------------------------------------------------------------------------
\* The state machine

NoStep == [ret |-> "NotCalled", item |-> NoItem]

\* Incoming::new, before the first poll
InitIncoming ==
    /\ connectings = <<>>
    /\ conns = <<>>
    /\ incoming_closed = FALSE
    /\ incoming = <<>>
    /\ endpoint_closed = FALSE
    /\ attempts = 0
    /\ handshake = [id \in Ids |-> "Pending"]
    /\ accept_bi = [id \in Ids |-> "Pending"]
    /\ next_index = [id \in Ids |-> 0]
    /\ step = NoStep
    /\ established = {}
    /\ discarded = {}
    /\ dropped = {}
    /\ emitted = {}

\* The multiplexer of a handler that was built from a PKCS8 key file
Init ==
    /\ InitIncoming
    /\ certificate = [exists |-> TRUE, ext |-> "pem", malformed |-> FALSE]
    /\ certificate_key = [exists |-> TRUE, ext |-> "pem", malformed |-> FALSE,
                          sections |-> <<"PKCS8">>]
    /\ key = Handler_new(certificate, certificate_key)

\* Connections the multiplexer or the endpoint still holds
Held == Range(incoming) \cup Range(connectings) \cup Range(conns)

RECURSIVE Sum(_, _)
Sum(f, n) == IF n = 0 THEN 0 ELSE f[n] + Sum(f, n - 1)

\* Streams opened so far: those taken and those waiting to be accepted
Opened(ni, ab) ==
    Sum([id \in Ids |-> ni[id] + IF ab[id] = "Ok" THEN 1 ELSE 0], MaxAttempts)

\* A peer starts a connection attempt: the endpoint has it ready
Arrive ==
    /\ ~endpoint_closed
    /\ attempts < MaxAttempts
    /\ attempts' = attempts + 1
    /\ incoming' = Append(incoming, attempts + 1)
    /\ UNCHANGED <<endpoint_closed, handshake, accept_bi, next_index>>
    /\ UNCHANGED <<mux, hist, handler>>

\* The endpoint is closed: accept() answers None once nothing is ready
CloseEndpoint ==
    /\ ~endpoint_closed
    /\ endpoint_closed' = TRUE
    /\ UNCHANGED <<incoming, attempts, handshake, accept_bi, next_index>>
    /\ UNCHANGED <<mux, hist, handler>>

\* A handshake resolves, to a connection or to an error
Resolve(id, r) ==
    /\ id \in Range(incoming) \cup Range(connectings)
    /\ handshake[id] = "Pending"
    /\ handshake' = [handshake EXCEPT ![id] = r]
    /\ UNCHANGED <<incoming, endpoint_closed, attempts, accept_bi, next_index>>
    /\ UNCHANGED <<mux, hist, handler>>

\* The peer opens a bidirectional stream on a connection
OpenStream(id) ==
    /\ id \in Held
    /\ handshake[id] = "Ok"
    /\ accept_bi[id] = "Pending"
    /\ Opened(next_index, accept_bi) < MaxStreams
    /\ accept_bi' = [accept_bi EXCEPT ![id] = "Ok"]
    /\ UNCHANGED <<incoming, endpoint_closed, attempts, handshake, next_index>>
    /\ UNCHANGED <<mux, hist, handler>>

\* A connection is lost: accept_bi() answers an error from now on
LoseConnection(id) ==
    /\ id \in Held
    /\ handshake[id] = "Ok"
    /\ accept_bi[id] = "Pending"
    /\ accept_bi' = [accept_bi EXCEPT ![id] = "Err"]
    /\ UNCHANGED <<incoming, endpoint_closed, attempts, handshake, next_index>>
    /\ UNCHANGED <<mux, hist, handler>>

\* The result of calling poll_next in the current state
Call ==
    poll_next(connectings, conns, incoming_closed, incoming, endpoint_closed,
              handshake, accept_bi, next_index)

\* The effect of a call with outcome r
Return(r) ==
    /\ connectings' = r.connectings
    /\ conns' = r.conns
    /\ incoming_closed' = r.incoming_closed
    /\ incoming' = r.rest
    /\ accept_bi' = [id \in Ids |->
          IF \E t \in Range(r.taken) : t[1] = id THEN "Pending"
          ELSE accept_bi[id]]
    /\ next_index' = [id \in Ids |->
          IF \E t \in Range(r.taken) : t[1] = id THEN next_index[id] + 1
          ELSE next_index[id]]
    /\ step' = [ret |-> r.ret, item |-> r.item]
    /\ established' = established \cup Range(r.succeeded)
    /\ discarded' = discarded \cup Range(r.failed)
    /\ dropped' = dropped \cup (Range(r.joined) \ Range(r.conns))
    /\ emitted' = IF r.ret = "Some"
                    THEN emitted \cup {<<r.item.conn, r.item.send>>}
                    ELSE emitted
    /\ UNCHANGED <<endpoint_closed, attempts, handshake, handler>>

\* The consumer calls poll_next: the three passes in order, each on what
\* the one before left
PollNext ==
    \E d \in {Drain(connectings, incoming_closed, incoming, endpoint_closed)} :
    \E a \in {Advance(d.connectings, conns, handshake)} :
    \E s \in {Scan(a.conns, accept_bi, next_index)} :
    \E r \in {Outcome(d, a, s)} :
        Return(r)

Next ==
    \/ Arrive
    \/ CloseEndpoint
    \/ \E id \in Ids : Resolve(id, "Ok")
    \/ \E id \in Ids : Resolve(id, "Err")
    \/ \E id \in Ids : OpenStream(id)
    \/ \E id \in Ids : LoseConnection(id)
    \/ PollNext

Spec == Init /\ [][Next]_vars

\* The consumer keeps calling poll_next
FairSpec == Spec /\ WF_vars(PollNext)

\* Peers that never run out of streams.  The total of MaxStreams is lifted:
\* a peer opens a stream whenever its last one has been accepted.  Along
\* such a run the index quinn gives the next stream of a connection grows
\* without bound, so no finite set of states holds the run as it is.  The
\* states below are the program's states seen through Fold: an index below
\* MaxStreams is itself, and MaxStreams stands for "MaxStreams or later".
\* poll_next reads an index only to copy it into the item (lines 93-99), so
\* the vectors, the flag, the order of the scan, the connection served and
\* the value returned are those of the program, index apart.
Fold(index) == IF index < MaxStreams THEN index ELSE MaxStreams

OpenStreamAgain(id) ==
    /\ id \in Held
    /\ handshake[id] = "Ok"
    /\ accept_bi[id] = "Pending"
    /\ accept_bi' = [accept_bi EXCEPT ![id] = "Ok"]
    /\ UNCHANGED <<incoming, endpoint_closed, attempts, handshake, next_index>>
    /\ UNCHANGED <<mux, hist, handler>>

\* The effect of a call with outcome r, the indices seen through Fold
ReturnBusy(r) ==
    /\ connectings' = r.connectings
    /\ conns' = r.conns
    /\ incoming_closed' = r.incoming_closed
    /\ incoming' = r.rest
    /\ accept_bi' = [id \in Ids |->
          IF \E t \in Range(r.taken) : t[1] = id THEN "Pending"
          ELSE accept_bi[id]]
    /\ next_index' = [id \in Ids |->
          IF \E t \in Range(r.taken) : t[1] = id
            THEN Fold(next_index[id] + 1)
            ELSE next_index[id]]
    /\ step' = [ret |-> r.ret, item |-> r.item]
    /\ established' = established \cup Range(r.succeeded)
    /\ discarded' = discarded \cup Range(r.failed)
    /\ dropped' = dropped \cup (Range(r.joined) \ Range(r.conns))
    /\ emitted' = IF r.ret = "Some"
                    THEN emitted \cup {<<r.item.conn, r.item.send>>}
                    ELSE emitted
    /\ UNCHANGED <<endpoint_closed, attempts, handshake, handler>>

PollNextBusy ==
    \E d \in {Drain(connectings, incoming_closed, incoming, endpoint_closed)} :
    \E a \in {Advance(d.connectings, conns, handshake)} :
    \E s \in {Scan(a.conns, accept_bi, next_index)} :
    \E r \in {Outcome(d, a, s)} :
        ReturnBusy(r)

NextBusy ==
    \/ Arrive
    \/ CloseEndpoint
    \/ \E id \in Ids : Resolve(id, "Ok")
    \/ \E id \in Ids : Resolve(id, "Err")
    \/ \E id \in Ids : OpenStreamAgain(id)
    \/ \E id \in Ids : LoseConnection(id)
    \/ PollNextBusy

\* The consumer keeps calling poll_next and the peers keep opening streams
BusySpec == Init /\ [][NextBusy]_vars /\ WF_vars(PollNextBusy)

\* Handler::new on any certificate and key file, with no multiplexer running
InitHandler ==
    /\ InitIncoming
    /\ certificate \in CertFiles
    /\ certificate_key \in KeyFiles
    /\ key = NotLoaded

NewHandler ==
    /\ key = NotLoaded
    /\ key' = Handler_new(certificate, certificate_key)
    /\ UNCHANGED <<mux, env, hist, certificate, certificate_key>>

HandlerSpec == InitHandler /\ [][NewHandler]_vars

TypeOK ==
    /\ Range(connectings) \subseteq Ids
    /\ Range(conns) \subseteq Ids
    /\ incoming_closed \in BOOLEAN
    /\ step.ret \in {"NotCalled", "Some", "None", "Pending"}

----------------------------------------------------------------------------
\* Properties.  Call is the call of poll_next made in the current state, so
\* an invariant over Call speaks of every call made from a reachable state.

\* The streams the peers have had accepted so far
Taken == {<<id, k>> : id \in Ids, k \in 0..(MaxStreams - 1)} \cap
         {t \in Ids \X (0..MaxStreams) : t[2] < next_index[t[1]]}

\* C1: one call of poll_next takes at most one stream and returns at most
\* one item: the connection that yields a stream is the last one asked, so
\* no connection behind it is asked in that call.
C1_AtMostOneUnit ==
    \A r \in {Call} :
        /\ Len(r.taken) <= 1
        /\ (r.ret = "Some") = (Len(r.taken) = 1)
        /\ \A i \in 1..Len(r.scanned) :
              accept_bi[r.scanned[i]] = "Ok" => i = Len(r.scanned)
        /\ r.taken # <<>> => r.scanned[Len(r.scanned)] = r.taken[1][1]

\* A call returns an item while a connection behind the yielding one has a
\* stream ready too and is not asked.
C1_Witness ==
    /\ step.ret # "NotCalled"
    /\ \E r \in {Call} :
          /\ r.ret = "Some"
          /\ \E c \in Range(conns) \ Range(r.scanned) : accept_bi[c] = "Ok"

\* C2: the stream a call takes from a connection is the item that call
\* returns, a call that returns no item has taken none, the item was never
\* returned before, and the streams returned so far are exactly the streams
\* taken so far.
C2_NoStreamLostOrDuplicated ==
    \A r \in {Call} :
        /\ r.ret = "Some" =>
              /\ r.item.kind = "Stream"
              /\ r.taken = << <<r.item.conn, r.item.send>> >>
              /\ <<r.item.conn, r.item.send>> \notin emitted
        /\ r.ret # "Some" => r.taken = <<>> /\ r.item = NoItem
        /\ emitted = Taken

\* The last call returned the second stream of a connection.
C2_Witness ==
    /\ step.ret = "Some"
    /\ step.item.send = 1
    /\ emitted = {<<step.item.conn, 0>>, <<step.item.conn, 1>>}

\* C3: a call returns Ready(None) exactly when, at its completion check,
\* the closed flag is set and both vectors are empty; every other call
\* returns an item or Pending.
C3_FinishedIffDrained ==
    \A r \in {Call} :
        /\ (r.ret = "None") =
              (r.incoming_closed /\ r.connectings = <<>> /\ r.conns = <<>>)
        /\ r.ret \in {"Some", "None", "Pending"}
        /\ r.ret = "None" => r.item = NoItem
        /\ r.incoming_closed => endpoint_closed

\* The sequence finished after a handshake failed and a connection was dropped.
C3_Witness ==
    /\ step.ret = "None"
    /\ discarded # {}
    /\ dropped # {}

\* C4: when the endpoint is closed with nothing ready, nothing pending and
\* nothing established, the next call returns Ready(None); and after a call
\* has returned Ready(None) the next call returns Ready(None) again, returns
\* no item, and leaves the flag and both vectors as they are.
C4_FinishedIsAbsorbing ==
    \A r \in {Call} :
        /\ (endpoint_closed /\ incoming = <<>> /\ connectings = <<>>
              /\ conns = <<>>) => r.ret = "None"
        /\ step.ret = "None" =>
              /\ r.ret = "None"
              /\ r.item = NoItem
              /\ <<r.connectings, r.conns, r.incoming_closed>> = mux
              /\ mux = <<<<>>, <<>>, TRUE>>

\* The endpoint was closed before any attempt arrived and the call after
\* that returned Ready(None).
C4_Witness ==
    /\ step.ret = "None"
    /\ attempts = 0
    /\ incoming_closed

\* Sequence s without its elements outside set S
RECURSIVE Keep(_, _)
Keep(s, S) ==
    IF s = <<>> THEN <<>>
    ELSE IF Head(s) \in S THEN <<Head(s)>> \o Keep(Tail(s), S)
    ELSE Keep(Tail(s), S)

\* C5: a call polls every pending handshake once; the ones that answer Ok
\* are appended once to self.conns and leave self.connectings, the ones that
\* answer Err leave self.connectings and are appended nowhere, the others
\* stay.  A handshake seen resolved by an earlier call is not polled again,
\* none is both established and discarded, and none that had resolved when
\* the call was made is still pending after it.
C5_ResolvedExactlyOnce ==
    \A r \in {Call} :
        /\ r.polled = connectings \o r.obtained
        /\ NoDup(r.polled)
        /\ r.succeeded = Keep(r.polled, {id \in Ids : handshake[id] = "Ok"})
        /\ r.failed = Keep(r.polled, {id \in Ids : handshake[id] = "Err"})
        /\ r.joined = conns \o r.succeeded
        /\ NoDup(r.joined)
        /\ Range(r.connectings) =
              {id \in Range(r.polled) : handshake[id] = "Pending"}
        /\ NoDup(r.connectings)
        /\ Range(r.failed) \cap Range(r.joined) = {}
        /\ Range(r.polled) \cap (established \cup discarded) = {}
        /\ established \cap discarded = {}

\* The last call saw one handshake succeed and one fail, and a third is
\* still pending.
C5_Witness ==
    /\ step.ret # "NotCalled"
    /\ established # {}
    /\ discarded # {}
    /\ connectings # <<>>
    /\ \A id \in Range(connectings) : handshake[id] = "Pending"

\* Connections that have produced an item, and handshakes that succeeded
Producers == {t[1] : t \in emitted}
Succeeded == {id \in Ids : handshake[id] = "Ok"}

C6_Safety ==
    /\ Producers \subseteq established
    /\ established \subseteq Succeeded
    /\ Cardinality(Producers) <= Cardinality(Succeeded)
    /\ Range(conns) \subseteq established
    /\ \A r \in {Call} :
          /\ Range(r.succeeded) \subseteq Succeeded
          /\ Succeeded \ established \subseteq Range(r.succeeded)
          /\ Range(r.scanned) \subseteq established \cup Range(r.succeeded)
          /\ r.ret = "Some" =>
                r.item.conn \in established \cup Range(r.succeeded)

\* C6: the connections that have produced an item are among the handshakes
\* that resolved successfully (only a connection appended to self.conns after
\* its handshake answered Ok is ever asked for a stream), so they are at most
\* as many; a handshake that resolved successfully and is not established
\* yet is appended to self.conns by the next call, so, the consumer calling
\* poll_next again and again, it is eventually appended.
C6_ProducersWithinSuccesses ==
    /\ []C6_Safety
    /\ \A id \in Ids : (handshake[id] = "Ok") ~> (id \in established)

\* Two connections have produced an item, and a third handshake failed.
C6_Witness ==
    /\ Cardinality(Producers) = 2
    /\ discarded # {}

\* C7: a connection whose accept_bi answers Err in a call is not in
\* self.conns when the call returns, whatever the call returns, and a
\* connection dropped by an earlier call is neither in self.conns nor asked
\* nor established again; a call on a single connection whose accept fails
\* leaves self.conns empty.
C7_FailedConnectionDropped ==
    \A r \in {Call} :
        /\ \A c \in Range(r.scanned) :
              accept_bi[c] = "Err" =>
                 c \in Range(r.refused) /\ c \notin Range(r.conns)
        /\ Range(r.refused) \cap Range(r.conns) = {}
        /\ dropped \cap Range(conns) = {}
        /\ dropped \cap Range(r.scanned) = {}
        /\ dropped \cap Range(r.succeeded) = {}
        /\ (Len(r.joined) = 1 /\ accept_bi[r.joined[1]] = "Err") =>
              r.conns = <<>>

\* The next call drops a connection and returns an item of another one,
\* after an earlier call has dropped a connection already.
C7_Witness ==
    /\ dropped # {}
    /\ \E r \in {Call} : r.ret = "Some" /\ r.refused # <<>>

\* C8: a connection that is in self.conns during a call and not when the
\* call returns is one whose accept_bi answered Err in that call; one that
\* answered Pending, the one that yielded the stream, and one that was not
\* asked because the scan had stopped, are all still in self.conns.
C8_DroppedOnlyOnFailure ==
    \A r \in {Call} :
        /\ \A c \in Range(r.joined) :
              c \notin Range(r.conns) =>
                 c \in Range(r.refused) /\ accept_bi[c] = "Err"
        /\ \A c \in Range(r.scanned) :
              accept_bi[c] = "Pending" => c \in Range(r.conns)
        /\ r.ret = "Some" => r.item.conn \in Range(r.conns)
        /\ Range(r.joined) \ Range(r.scanned) \subseteq Range(r.conns)
        /\ Range(r.conns) \subseteq Range(r.joined)

\* The next call is on three connections: the first answers Pending, the
\* second yields a stream, the third is lost and is not asked.
C8_Witness ==
    /\ step.ret # "NotCalled"
    /\ Len(conns) = 3
    /\ accept_bi[conns[1]] = "Pending"
    /\ accept_bi[conns[2]] = "Ok"
    /\ accept_bi[conns[3]] = "Err"
    /\ \A r \in {Call} : r.scanned = <<conns[1], conns[2]>> /\ r.conns = conns

\* C9: once the flag is set a call leaves it set and does not ask the
\* endpoint; a call made with the flag clear asks until the answer is not an
\* attempt, sets the flag exactly when that answer is None, and appends
\* every attempt it obtained, also those obtained before a None, to
\* self.connectings, where the handshake pass polls them.
C9_ClosureIsPermanent ==
    \A r \in {Call} :
        /\ incoming_closed =>
              /\ r.incoming_closed
              /\ r.asked = 0
              /\ r.obtained = <<>>
              /\ r.rest = incoming
        /\ ~incoming_closed =>
              /\ r.obtained = incoming
              /\ r.asked = Len(r.obtained) + 1
              /\ r.rest = <<>>
              /\ r.incoming_closed = endpoint_closed
        /\ r.polled = connectings \o r.obtained
        /\ Range(r.obtained) \subseteq
              Range(r.connectings) \cup Range(r.succeeded) \cup Range(r.failed)

\* The next call obtains two attempts and then is answered None, after an
\* earlier call was answered Pending.
C9_Witness ==
    /\ step.ret = "Pending"
    /\ ~incoming_closed
    /\ endpoint_closed
    /\ Len(incoming) = 2

\* C10: a call that returns Pending has, unless the flag is set when it
\* returns, asked the endpoint until it answered Pending; every handshake
\* left in self.connectings was polled and answered Pending; every
\* connection left in self.conns was asked and answered Pending; and the
\* flag is clear or one of the two vectors is not empty.
C10_PendingHasWaker ==
    \A r \in {Call} :
        r.ret = "Pending" =>
           /\ ~r.incoming_closed =>
                 /\ r.asked >= 1
                 /\ EndpointAccept(r.rest, endpoint_closed) = "Pending"
           /\ \A id \in Range(r.connectings) :
                 id \in Range(r.polled) /\ handshake[id] = "Pending"
           /\ \A c \in Range(r.conns) :
                 c \in Range(r.scanned) /\ accept_bi[c] = "Pending"
           /\ ~r.incoming_closed \/ r.connectings # <<>> \/ r.conns # <<>>

\* The last call returned Pending with the endpoint open, a handshake
\* pending and a connection without a stream; before it a connection was lost.
C10_Witness ==
    /\ step.ret = "Pending"
    /\ ~incoming_closed
    /\ connectings # <<>>
    /\ conns # <<>>
    /\ dropped # {}
    /\ \A r \in {Call} : r.ret = "Pending" /\ r.refused = <<>>

\* C11: in a call in which handshakes fail, the entries that leave
\* self.connectings are exactly the ones that answered Ok or Err; the
\* others stay; self.conns only grows by the ones that answered Ok, no
\* connection leaves it unless its own accept_bi answered Err; and the call
\* returns Ready(None) only with the flag set and both vectors empty.
C11_HandshakeFailureIsLocal ==
    \A r \in {Call} :
        r.failed # <<>> =>
           /\ Range(r.polled) \ Range(r.connectings) =
                 Range(r.succeeded) \cup Range(r.failed)
           /\ \A id \in Range(r.polled) :
                 handshake[id] = "Pending" => id \in Range(r.connectings)
           /\ Len(r.connectings) =
                 Len(r.polled) - Len(r.succeeded) - Len(r.failed)
           /\ r.joined = conns \o r.succeeded
           /\ Range(r.failed) \cap Range(r.joined) = {}
           /\ \A c \in Range(conns) :
                 c \notin Range(r.conns) => accept_bi[c] = "Err"
           /\ r.ret = "None" =>
                 r.incoming_closed /\ r.connectings = <<>> /\ r.conns = <<>>
           /\ (~r.incoming_closed \/ r.connectings # <<>> \/ r.conns # <<>>)
                 => r.ret # "None"

\* The next call sees the first of two pending handshakes fail while the
\* other stays pending and the established connections stay as they are.
C11_Witness ==
    /\ step.ret # "NotCalled"
    /\ conns # <<>>
    /\ Len(connectings) + Len(incoming) = 2
    /\ \A r \in {Call} :
          /\ Len(r.polled) = 2
          /\ r.failed = <<r.polled[1]>>
          /\ r.connectings = <<r.polled[2]>>
          /\ r.conns = conns

\* Sequence s without its elements in set S
Without(s, S) == Keep(s, Range(s) \ S)

\* C12: the connections whose accept_bi answers Err in a call are the ones
\* removed: self.conns after the call is self.conns of the scan without
\* them, in the same order; self.connectings is what the handshake pass
\* left; and the first connection that answers Ok yields the item, also
\* behind connections that failed.
C12_AcceptFailureIsLocal ==
    \A r \in {Call} :
        /\ r.conns = Without(r.joined, Range(r.refused))
        /\ Range(r.refused) =
              {c \in Range(r.scanned) : accept_bi[c] = "Err"}
        /\ Range(r.connectings) =
              {id \in Range(r.polled) : handshake[id] = "Pending"}
        /\ (\E c \in Range(r.joined) : accept_bi[c] = "Ok") =>
              /\ r.ret = "Some"
              /\ accept_bi[r.item.conn] = "Ok"
              /\ \A c \in Range(r.scanned) \ {r.item.conn} :
                    accept_bi[c] # "Ok"

\* The next call drops the first of three connections and returns an item
\* of the last one; the second stays in front of it.
C12_Witness ==
    /\ step.ret # "NotCalled"
    /\ Len(conns) = 3
    /\ \A r \in {Call} :
          /\ r.refused = <<conns[1]>>
          /\ r.ret = "Some"
          /\ r.item.conn = conns[3]
          /\ r.conns = <<conns[2], conns[3]>>

\* C13: the item a call returns carries the remote address of the
\* connection whose accept_bi yielded the stream in that call, and the
\* index of that stream.
C13_SessionMatchesStream ==
    \A r \in {Call} :
        r.ret = "Some" =>
           /\ r.item.conn = r.scanned[Len(r.scanned)]
           /\ accept_bi[r.item.conn] = "Ok"
           /\ r.item.source = remote_address(r.scanned[Len(r.scanned)])
           /\ r.item.send = next_index[r.item.conn]
           /\ r.item.stream_id = r.item.send

\* The next call returns the second stream of a connection that stands
\* behind a connection with another remote address.
C13_Witness ==
    /\ step.ret # "NotCalled"
    /\ \A r \in {Call} :
          /\ r.ret = "Some"
          /\ r.item.stream_id = 1
          /\ Len(r.scanned) >= 2
          /\ remote_address(r.scanned[1]) # r.item.source

\* Place of the first section of a kind in a file, 0 when there is none
First(sections, kind) ==
    IF \E i \in 1..Len(sections) : sections[i] = kind
      THEN CHOOSE i \in 1..Len(sections) :
              /\ sections[i] = kind
              /\ \A j \in 1..(i - 1) : sections[j] # kind
      ELSE 0

\* Both files were read and the certificate was parsed
KeyReached ==
    /\ read_files(certificate, certificate_key) = "Ok"
    /\ parse_certificate(certificate) = "Ok"

\* C14: once the files are read and the certificate parsed, for a key file
\* without the der extension whose sections all decode, the key is the first PKCS8 section if there is one, else the first RSA
\* section if there is one, else the first EC section if there is one; a
\* file with RSA sections only gives its first RSA section; and with no
\* section of the three kinds the construction fails with "no private keys
\* found" and gives no key.
C14_KeyFormatOrder ==
    (key # NotLoaded /\ KeyReached /\ certificate_key.ext # "der"
        /\ ~certificate_key.malformed) =>
       \A p \in {First(certificate_key.sections, "PKCS8")} :
       \A r \in {First(certificate_key.sections, "RSA")} :
       \A e \in {First(certificate_key.sections, "EC")} :
          /\ p > 0 => key = Loaded([kind |-> "PKCS8", at |-> p])
          /\ (p = 0 /\ r > 0) => key = Loaded([kind |-> "RSA", at |-> r])
          /\ (p = 0 /\ r = 0 /\ e > 0) =>
                key = Loaded([kind |-> "EC", at |-> e])
          /\ (p = 0 /\ r = 0 /\ e = 0) =>
                key = Failed("no private keys found")
          /\ Range(certificate_key.sections) = {"RSA"} =>
                key.ok /\ key.key.kind = "RSA"

\* A file with an RSA section in front of two PKCS8 sections was loaded: the
\* key is the first PKCS8 section.
C14_Witness ==
    /\ KeyReached
    /\ certificate_key.ext = "pem"
    /\ certificate_key.sections = <<"RSA", "PKCS8", "PKCS8">>
    /\ key = Loaded([kind |-> "PKCS8", at |-> 2])

\* Number of places of sequence s that hold x
Count(s, x) == Cardinality({i \in 1..Len(s) : s[i] = x})

\* C15: the handshake pass polls each entry of self.connectings once, and
\* what it leaves in self.connectings holds each entry that answered
\* Pending exactly once and no entry that answered Ok or Err, whichever
\* places the resolved entries are in.
C15_PassRemovesExactlyResolved ==
    \A r \in {Call} :
        /\ Len(r.polled) = Len(connectings) + Len(r.obtained)
        /\ \A id \in Ids :
              /\ Count(r.polled, id) =
                    Count(connectings, id) + Count(r.obtained, id)
              /\ Count(r.connectings, id) =
                    IF handshake[id] = "Pending" THEN Count(r.polled, id) ELSE 0
        /\ Len(r.connectings) =
              Cardinality({i \in 1..Len(r.polled) :
                              handshake[r.polled[i]] = "Pending"})

\* The next call polls three entries: the first two have resolved, the last
\* has not and takes the first place.
C15_Witness ==
    /\ step.ret # "NotCalled"
    /\ \A r \in {Call} :
          /\ Len(r.polled) = 3
          /\ handshake[r.polled[1]] = "Err"
          /\ handshake[r.polled[2]] = "Ok"
          /\ handshake[r.polled[3]] = "Pending"
          /\ r.connectings = <<r.polled[3]>>

\* C16: no connection is in two of the endpoint's queue, self.connectings
\* and self.conns, none is twice in one of them, and one that was discarded
\* or dropped is in none of them, before and after every call.
C16_SingleOwner ==
    /\ NoDup(incoming) /\ NoDup(connectings) /\ NoDup(conns)
    /\ Range(incoming) \cap Range(connectings) = {}
    /\ Range(incoming) \cap Range(conns) = {}
    /\ Range(connectings) \cap Range(conns) = {}
    /\ (discarded \cup dropped) \cap Held = {}
    /\ \A r \in {Call} :
          /\ NoDup(r.connectings) /\ NoDup(r.conns) /\ NoDup(r.joined)
          /\ Range(r.connectings) \cap Range(r.joined) = {}
          /\ Range(r.rest) \cap (Range(r.connectings) \cup Range(r.joined)) = {}
          /\ (discarded \cup dropped \cup Range(r.failed) \cup Range(r.refused))
                \cap (Range(r.connectings) \cup Range(r.conns)) = {}

\* One connection is pending, one is established, one was discarded, and
\* the endpoint is closed.
C16_Witness ==
    /\ step.ret # "NotCalled"
    /\ Len(connectings) = 1
    /\ Len(conns) = 1
    /\ Cardinality(discarded) = 1
    /\ incoming_closed

\* A stream ready on a held connection is eventually taken from it
ReadyStreamTaken ==
    \A c \in Ids :
        (c \in Range(conns) /\ accept_bi[c] = "Ok") ~> (accept_bi[c] # "Ok")

\* A held connection whose accept_bi answers Err is eventually dropped
AcceptFailureObserved ==
    \A c \in Ids :
        (c \in Range(conns) /\ accept_bi[c] = "Err") ~> (c \in dropped)

\* C17: the consumer calling poll_next again and again, a stream that is
\* ready on a connection of self.conns is eventually taken, and a
\* connection of self.conns whose accept_bi answers Err is eventually
\* dropped, whatever the connections in front of it do.
C17_NoConnectionStarved ==
    /\ ReadyStreamTaken
    /\ AcceptFailureObserved

\* The endpoint is closed, no handshake the endpoint or the multiplexer
\* holds is pending, and every connection held answers Err to accept_bi
AllWorkDrained ==
    /\ endpoint_closed
    /\ \A id \in Held :
          /\ handshake[id] # "Pending"
          /\ handshake[id] = "Ok" => accept_bi[id] = "Err"

\* A call answers None only with the endpoint closed and nothing held
C18_Safety ==
    /\ step.ret = "None" =>
          /\ endpoint_closed
          /\ incoming_closed
          /\ Held = {}
    /\ \A r \in {Call} :
          r.ret = "None" =>
              /\ endpoint_closed
              /\ r.incoming_closed
              /\ r.rest = <<>>
              /\ r.connectings = <<>>
              /\ r.conns = <<>>

\* C18: the consumer calling poll_next again and again, once the endpoint is
\* closed, every handshake has resolved and every connection has failed, a
\* call eventually answers None; and no call answers None while the endpoint
\* is open or while self.connectings or self.conns holds an entry.
C18_FinishesWhenDrained ==
    /\ []C18_Safety
    /\ AllWorkDrained ~> (step.ret = "None")

\* The stream finished after a connection was established and lost and
\* another handshake failed.
C18_Witness ==
    /\ step.ret = "None"
    /\ established # {}
    /\ dropped # {}
    /\ discarded # {}

\* C19: a call of poll_next with n attempts ready at the endpoint asks the
\* endpoint at most n + 1 times and obtains only those n; it polls each
\* handshake of self.connectings, the obtained ones included, exactly once,
\* and each connection of self.conns at most once; a handshake or a
\* connection that answers Pending is in its vector when the call returns.
C19_StepIsBounded ==
    \A r \in {Call} :
        /\ r.asked <= Len(incoming) + 1
        /\ r.asked = Len(r.obtained) + (IF incoming_closed THEN 0 ELSE 1)
        /\ incoming = r.obtained \o r.rest
        /\ NoDup(r.polled)
        /\ Range(r.polled) = Range(connectings) \cup Range(r.obtained)
        /\ Len(r.polled) = Len(connectings) + Len(r.obtained)
        /\ NoDup(r.scanned)
        /\ Range(r.scanned) \subseteq Range(r.joined)
        /\ \A id \in Range(r.polled) :
              handshake[id] = "Pending" =>
                  Count(r.connectings, id) = 1 /\ id \notin Range(r.conns)
        /\ \A c \in Range(r.joined) :
              (accept_bi[c] = "Pending" \/ c \notin Range(r.scanned)) =>
                  Count(r.conns, c) = 1

\* A call that finds two attempts ready at the open endpoint, one already
\* resolved and one pending, besides a connection that has nothing ready.
C19_Witness ==
    /\ ~endpoint_closed
    /\ Len(incoming) = 2
    /\ \E id \in Range(incoming) : handshake[id] = "Pending"
    /\ \E id \in Range(incoming) : handshake[id] = "Ok"
    /\ \E c \in Range(conns) : accept_bi[c] = "Pending"
    /\ \A r \in {Call} : r.asked = 3 /\ Len(r.polled) = 2 /\ r.ret = "Pending"

\* C20: in one call of poll_next the handshake pass runs over
\* self.connectings followed by the attempts the drain loop obtained in
\* this call; the accept pass runs over self.conns followed by the
\* connections the handshake pass established in this call, in that order,
\* up to the first one with a stream ready and over all of them if there is
\* none; the item returned comes from the last connection scanned.
C20_StagesChained ==
    \A r \in {Call} :
        /\ r.polled = connectings \o r.obtained
        /\ Range(r.succeeded) = {id \in Range(r.polled) : handshake[id] = "Ok"}
        /\ r.joined = conns \o r.succeeded
        /\ Len(r.scanned) <= Len(r.joined)
        /\ r.scanned = SubSeq(r.joined, 1, Len(r.scanned))
        /\ \A i \in 1..Len(r.scanned) :
              (accept_bi[r.scanned[i]] = "Ok") <=>
                  (r.ret = "Some" /\ i = Len(r.scanned))
        /\ r.ret # "Some" => r.scanned = r.joined
        /\ r.ret = "Some" => r.item.conn = r.scanned[Len(r.scanned)]

\* An attempt still at the endpoint, its handshake done and a stream open,
\* is obtained, established behind an idle connection and served by one call.
C20_Witness ==
    /\ conns # <<>>
    /\ \A c \in Range(conns) : accept_bi[c] = "Pending"
    /\ \E id \in Range(incoming) :
          /\ handshake[id] = "Ok"
          /\ accept_bi[id] = "Ok"
          /\ \A r \in {Call} :
                /\ r.ret = "Some"
                /\ r.item.conn = id
                /\ id \in Range(r.obtained)
                /\ r.joined = conns \o <<id>>

====
